---------------------------- MODULE Spec2Model ----------------------------
(***************************************************************************)
(* A model of axoasset's directory archival code, src/src/compression.rs:  *)
(* tar_dir (tar + gzip / xz / zstd) and zip_dir (zip, stored entries).     *)
(*                                                                         *)
(* One behaviour of the model is one call of tar_dir or zip_dir.  The      *)
(* arguments of the call and the source tree on disk are chosen in Init;   *)
(* every fallible library call (File::create, append_dir_all, into_inner,  *)
(* finish, add_directory, start_file, ...) is one step that either         *)
(* succeeds or returns an I/O error.                                       *)
(***************************************************************************)
EXTENDS Integers, Sequences, FiniteSets, TLC

VARIABLES
  compression,   \* "Gzip" | "Xzip" | "Zstd" (tar_dir's CompressionImpl) or "Zip" (zip_dir)
  src_tree,      \* what is at and below src_path: relative path -> kind of the object there
  with_root,     \* Option<&Utf8Path>: [some |-> BOOLEAN, path |-> path string]
  dest_path,     \* [has_name |-> BOOLEAN, parent_exists |-> BOOLEAN]
  prior,         \* the file at dest_path before the call: "absent" | "empty" | "prior"
  pc,            \* the call's position
  result,        \* what the call returned
  disk,          \* the file at dest_path: as before the call (prior), or "truncated" | "partial" | "complete"
  file_open,     \* the File handle created by the call is still open
  archive,       \* the entries written to the container so far, in order
  anc,           \* zip_dir: the ancestors of the root prefix still to visit
  seen,          \* zip_dir: the paths the walk has produced (Ok or Err)
  stack,         \* zip_dir: the directories the walk is inside of, root first
  skipped,       \* zip_dir: the paths whose walk item was an Err
  buffer,        \* zip_dir: the read buffer, one for all entries of the call
  log,           \* the library calls made, in order
  other,         \* a second call on another thread, while it is not running: its state
  asset          \* a call of the asset API (Asset, LocalAsset, SourceFile): its arguments,
                 \* position and result, the filesystem (fs) and the filesystem before the call

\* what no step of an archive call changes: its arguments, what was at
\* dest_path before it, the state of the other call and of the asset API
inputs == <<compression, src_tree, with_root, dest_path, prior, other, asset>>

walk == <<seen, stack, skipped>>

vars == <<compression, src_tree, with_root, dest_path, prior, pc, result, disk, file_open,
          archive, anc, seen, stack, skipped, buffer, log, other, asset>>

---------------------------------------------------------------------------
(* Bounds of the model.                                                    *)

\* the largest number of objects below the source directory
MaxNodes == 4

\* the largest number of components of the root prefix
MaxPrefix == 2

\* the largest number of bytes of a SourceFile's contents
MaxSrcLen == 4

\* the width of usize in the model of span_for_line_col
UsizeBits == 3

---------------------------------------------------------------------------
(* Path strings.  A path string is its components plus whether it ends in  *)
(* a separator: "pkg" and "pkg/" have the same components and differ as    *)
(* strings.                                                                *)

Str(comps, slash) == [comps |-> comps, slash |-> slash]

\* Utf8Path::new("")
EmptyPath == Str(<<>>, FALSE)

\* name.as_str().is_empty()
IsEmpty(p) == p.comps = <<>> /\ ~p.slash

\* Path equality compares components, so "pkg/" = "pkg"
SamePath(p, q) == p.comps = q.comps

\* Utf8Path::join for a relative right-hand side: joining the empty path
\* onto a non-empty one leaves a trailing separator ("pkg".join("") = "pkg/")
Join(p, q) ==
  IF q.comps = <<>>
    THEN IF p.comps = <<>> THEN p ELSE Str(p.comps, TRUE)
    ELSE Str(p.comps \o q.comps, q.slash)

\* Ancestors from the empty path down to the path itself
Ancestors_ShallowFirst(p) ==
  [i \in 1..(Len(p.comps) + 1) |->
     IF i = Len(p.comps) + 1 THEN p ELSE Str(SubSeq(p.comps, 1, i - 1), FALSE)]

\* Utf8Path::ancestors of a relative path: itself, its parent, ..., ""
Ancestors(p) ==
  [i \in 1..(Len(p.comps) + 1) |->
     IF i = 1 THEN p ELSE Str(SubSeq(p.comps, 1, Len(p.comps) + 1 - i), FALSE)]

\* the name of a directory entry always ends in a separator
WithSlash(p) == Str(p.comps, TRUE)

IsPrefixOf(s, t) == Len(s) <= Len(t) /\ SubSeq(t, 1, Len(s)) = s

---------------------------------------------------------------------------
(* The source directory.                                                   *)

\* the paths, relative to src_path, at which an object may exist
Universe ==
  { <<"a">>, <<"sub">>, <<"sub", "b">>, <<"sub", "empty">>, <<"sub", "empty", "c">> }

\* "file": regular file; "dir": directory; "link": symlink to a regular
\* file (Path::is_file follows it); "special": anything else (dangling
\* symlink, symlink to a directory, device, fifo)
Kinds == {"file", "dir", "link", "special"}

Root == <<>>

Parent(p) == SubSeq(p, 1, Len(p) - 1)

Present(t) == {p \in Universe : t[p] # "none"}

KindOf(t, p) == t[p]

\* what src_path itself may be: a directory, a regular file, or nothing
SrcKinds == {"dir", "file", "none"}

\* a tree: every object lives in a directory; src_path is the root
Trees ==
  { t \in [Universe \cup {Root} -> Kinds \cup {"none"}] :
      /\ t[Root] \in SrcKinds
      /\ \A p \in Universe : t[p] # "none" => t[Parent(p)] = "dir"
      /\ Cardinality(Present(t)) <= MaxNodes }

\* the bytes of the file at p (for a link, of its target)
Bytes(p) ==
  CASE p = Root -> <<"r">>
    [] p[Len(p)] = "a" -> <<"h", "i">>
    [] p[Len(p)] = "b" -> <<"w">>
    [] OTHER -> <<>>

Children(t, d) == {p \in Present(t) : Parent(p) = d}

\* Path::is_file(): follows symlinks
IsFile(t, p) == KindOf(t, p) \in {"file", "link"}

---------------------------------------------------------------------------
(* The arguments.                                                          *)

PrefixComps == <<"pkg", "v1", "x", "y">>

None == [some |-> FALSE, path |-> EmptyPath]

Some(p) == [some |-> TRUE, path |-> p]

Prefixes ==
  {None} \cup
  { Some(Str(SubSeq(PrefixComps, 1, n), FALSE)) : n \in 0..MaxPrefix }

DestPaths == [has_name : BOOLEAN, parent_exists : BOOLEAN]

\* what may be at dest_path before the call: nothing, an empty file, or an
\* earlier archive; a file can be there only if the path can name one
Priors(dest) == IF dest.parent_exists /\ dest.has_name THEN {"absent", "empty", "prior"} ELSE {"absent"}

---------------------------------------------------------------------------
(* Results.                                                                *)

NoResult == [kind |-> "none", reason |-> "", step |-> ""]

OkResult == [kind |-> "Ok", reason |-> "", step |-> ""]

Panic == [kind |-> "panic", reason |-> "unwrap on None", step |-> "file_name"]

Err(kind, reason, step) == [kind |-> kind, reason |-> reason, step |-> step]

Call(op, ok) == [op |-> op, ok |-> ok]

Entry(name, kind, bytes) == [name |-> name, kind |-> kind, bytes |-> bytes]

\* there is no second call
NoCall == [pc |-> "none"]

\* there is no call of the asset API
NoAsset == [pc |-> "none"]

Init ==
  /\ other = NoCall
  /\ asset = NoAsset
  /\ compression \in {"Gzip", "Xzip", "Zstd", "Zip"}
  /\ src_tree \in Trees
  /\ with_root \in Prefixes
  /\ dest_path \in DestPaths
  /\ pc = "start"
  /\ result = NoResult
  /\ prior \in Priors(dest_path)
  /\ disk = prior
  /\ file_open = FALSE
  /\ archive = <<>>
  /\ anc = <<>>
  /\ seen = {}
  /\ stack = <<>>
  /\ skipped = {}
  /\ buffer = <<>>
  /\ log = <<>>

---------------------------------------------------------------------------
(* Steps shared by the code paths: what a return does, and what a          *)
(* successful library call leaves behind.                                  *)

\* Returns that leaves the destination file open
Returns_Leak(r, calls) ==
  /\ pc' = "done"
  /\ result' = r
  /\ file_open' = file_open
  /\ log' = log \o calls

\* return r after the library calls `calls`: the locals go out of scope,
\* which closes the destination file if this call opened it
Returns(r, calls) ==
  /\ pc' = "done"
  /\ result' = r
  /\ file_open' = FALSE
  /\ log' = log \o calls \o (IF file_open THEN <<Call("drop_file", TRUE)>> ELSE <<>>)

\* go on to position p after the library calls `calls`
Proceeds(p, calls) ==
  /\ pc' = p
  /\ log' = log \o calls
  /\ UNCHANGED <<result, file_open>>

\* fs::File::create can succeed only below an existing directory and at a
\* path that names a file; it may fail there too (permissions, disk full)
CreateOutcomes == IF dest_path.parent_exists /\ dest_path.has_name THEN BOOLEAN ELSE {FALSE}

\* Created opening an existing file without truncating it
Created_Kept(d) == IF d = "absent" THEN "truncated" ELSE d

\* the file at dest_path after a successful fs::File::create, which creates
\* it if it is absent (d) and truncates it if it is there
Created(d) == "truncated"

---------------------------------------------------------------------------
(* tar_dir.                                                                *)

\* DirName falling back to the source directory's own name
DirName_SrcName(root) == IF root.some THEN root.path ELSE Str(<<"src">>, FALSE)

\* with_root.unwrap_or_else(|| Utf8Path::new(""))
DirName(root) == IF root.some THEN root.path ELSE EmptyPath

RECURSIVE SeqOf(_)
SeqOf(S) == IF S = {} THEN <<>> ELSE LET x == CHOOSE y \in S : TRUE IN <<x>> \o SeqOf(S \ {x})

\* tar::Builder::append_dir_all(path, src_path) with the builder's default
\* of following symlinks: one entry per object at path.join(relative path);
\* the directory src_path itself gets an entry unless that name is empty
TarEntryOf(dir_name, t, p) ==
  LET dest == Join(dir_name, Str(p, FALSE)) IN
  CASE KindOf(t, p) = "dir" -> Entry(WithSlash(dest), "dir", <<>>)
    [] KindOf(t, p) \in {"file", "link"} -> Entry(dest, "file", Bytes(p))
    [] OTHER -> Entry(dest, "special", <<>>)

TarEntries(dir_name, t) ==
  LET objs == {p \in Present(t) \cup {Root} : ~SamePath(Join(dir_name, Str(p, FALSE)), EmptyPath)} IN
  [i \in 1..Cardinality(objs) |-> TarEntryOf(dir_name, t, SeqOf(objs)[i])]

\* what a failed append_dir_all may have written before it failed
PartialOf(entries) ==
  IF entries = <<>> THEN {<<>>} ELSE {SubSeq(entries, 1, k) : k \in 0..(Len(entries) - 1)}

\* TarCreate that creates the destination before it takes the file name
TarCreate_CreateFirst ==
  /\ pc = "start"
  /\ compression \in {"Gzip", "Xzip", "Zstd"}
  /\ \E ok \in CreateOutcomes :
       IF ~ok
         THEN /\ Returns(Err("LocalAssetWriteNewFailed", "", "create"), <<Call("create", FALSE)>>)
              /\ UNCHANGED disk
       ELSE IF ~dest_path.has_name
         THEN /\ pc' = "panicked"
              /\ result' = Panic
              /\ disk' = Created(disk)
              /\ file_open' = FALSE
              /\ log' = log \o <<Call("create", TRUE), Call("file_name", FALSE), Call("drop_file", TRUE)>>
         ELSE /\ disk' = Created(disk)
              /\ file_open' = TRUE
              /\ pc' = "created"
              /\ log' = log \o <<Call("create", TRUE), Call("file_name", TRUE)>>
              /\ UNCHANGED result
  /\ UNCHANGED <<inputs, archive, anc, walk, buffer>>

\* lines 34-44: the gzip member name is taken from dest_path.file_name()
\* with unwrap(), then the destination is created
TarCreate ==
  /\ pc = "start"
  /\ compression \in {"Gzip", "Xzip", "Zstd"}
  /\ IF ~dest_path.has_name
       THEN /\ pc' = "panicked"
            /\ result' = Panic
            /\ log' = Append(log, Call("file_name", FALSE))
            /\ UNCHANGED <<disk, file_open>>
       ELSE \E ok \in CreateOutcomes :
              IF ok
                THEN /\ disk' = Created(disk)
                     /\ file_open' = TRUE
                     /\ pc' = "created"
                     /\ log' = log \o <<Call("file_name", TRUE), Call("create", TRUE)>>
                     /\ UNCHANGED result
                ELSE /\ Returns(Err("LocalAssetWriteNewFailed", "", "create"),
                                <<Call("file_name", TRUE), Call("create", FALSE)>>)
                     /\ UNCHANGED disk
  /\ UNCHANGED <<inputs, archive, anc, walk, buffer>>

\* the effect of tar.append_dir_all(dir_name, src_path) on the archive;
\* it starts by listing src_path, which fails unless that is a directory
AppendDirAll(ok) ==
  LET entries == TarEntries(DirName(with_root), src_tree) IN
  /\ disk' = "partial"
  /\ IF KindOf(src_tree, Root) # "dir" THEN ~ok /\ archive' = <<>>
     ELSE IF ok THEN archive' = entries
     ELSE archive' \in PartialOf(entries)

\* GzipAppend without the return on a failed append_dir_all
GzipAppend_NoReturn ==
  /\ pc = "created"
  /\ compression = "Gzip"
  /\ \E ok \in BOOLEAN :
       /\ AppendDirAll(ok)
       /\ Proceeds("appended", <<Call("encoder", TRUE), Call("append_dir_all", ok)>>)
  /\ UNCHANGED <<inputs, anc, walk, buffer>>

\* lines 49-62
GzipAppend ==
  /\ pc = "created"
  /\ compression = "Gzip"
  /\ \E ok \in BOOLEAN :
       /\ AppendDirAll(ok)
       /\ IF ok
            THEN Proceeds("appended", <<Call("encoder", TRUE), Call("append_dir_all", TRUE)>>)
            ELSE Returns(Err("LocalAssetArchive", "failed to copy directory into tar: {src_path} => {dir_name}", "append_dir_all"),
                         <<Call("encoder", TRUE), Call("append_dir_all", FALSE)>>)
  /\ UNCHANGED <<inputs, anc, walk, buffer>>

\* GzipIntoInner with the error of into_inner dropped
GzipIntoInner_Unchecked ==
  /\ pc = "appended"
  /\ compression = "Gzip"
  /\ \E ok \in BOOLEAN : Proceeds("tar_finished", <<Call("into_inner", ok)>>)
  /\ UNCHANGED <<inputs, disk, archive, anc, walk, buffer>>

\* lines 64-72
GzipIntoInner ==
  /\ pc = "appended"
  /\ compression = "Gzip"
  /\ \E ok \in BOOLEAN :
       IF ok
         THEN Proceeds("tar_finished", <<Call("into_inner", TRUE)>>)
         ELSE Returns(Err("LocalAssetArchive", "failed to write tar: {dest_path}", "into_inner"),
                      <<Call("into_inner", FALSE)>>)
  /\ UNCHANGED <<inputs, disk, archive, anc, walk, buffer>>

\* GzipFinish that removes the destination when finish fails
GzipFinish_RemovesFile ==
  /\ pc = "tar_finished"
  /\ compression = "Gzip"
  /\ \E ok \in BOOLEAN :
       IF ok
         THEN /\ Returns(OkResult, <<Call("finish", TRUE)>>)
              /\ disk' = "complete"
         ELSE /\ Returns(Err("LocalAssetArchive", "failed to write archive: {dest_path}", "finish"),
                         <<Call("finish", FALSE)>>)
              /\ disk' = "absent"
  /\ UNCHANGED <<inputs, archive, anc, walk, buffer>>

\* lines 74-84, 162
GzipFinish ==
  /\ pc = "tar_finished"
  /\ compression = "Gzip"
  /\ \E ok \in BOOLEAN :
       IF ok
         THEN /\ Returns(OkResult, <<Call("finish", TRUE)>>)
              /\ disk' = "complete"
         ELSE /\ Returns(Err("LocalAssetArchive", "failed to write archive: {dest_path}", "finish"),
                         <<Call("finish", FALSE)>>)
              /\ UNCHANGED disk
  /\ UNCHANGED <<inputs, archive, anc, walk, buffer>>

\* lines 86-96
XzipAppend ==
  /\ pc = "created"
  /\ compression = "Xzip"
  /\ \E ok \in BOOLEAN :
       /\ AppendDirAll(ok)
       /\ IF ok
            THEN Proceeds("appended", <<Call("encoder", TRUE), Call("append_dir_all", TRUE)>>)
            ELSE Returns(Err("LocalAssetArchive", "failed to copy directory into tar: {src_path} => {dir_name}", "append_dir_all"),
                         <<Call("encoder", TRUE), Call("append_dir_all", FALSE)>>)
  /\ UNCHANGED <<inputs, anc, walk, buffer>>

\* lines 98-106
XzipIntoInner ==
  /\ pc = "appended"
  /\ compression = "Xzip"
  /\ \E ok \in BOOLEAN :
       IF ok
         THEN Proceeds("tar_finished", <<Call("into_inner", TRUE)>>)
         ELSE Returns(Err("LocalAssetArchive", "failed to write tar: {dest_path}", "into_inner"),
                      <<Call("into_inner", FALSE)>>)
  /\ UNCHANGED <<inputs, disk, archive, anc, walk, buffer>>

\* XzipFinish with a reason text of its own for a failed finish
XzipFinish_OtherReason ==
  /\ pc = "tar_finished"
  /\ compression = "Xzip"
  /\ \E ok \in BOOLEAN :
       IF ok
         THEN /\ Returns(OkResult, <<Call("finish", TRUE)>>)
              /\ disk' = "complete"
         ELSE /\ Returns(Err("LocalAssetArchive", "failed to write xz stream: {dest_path}", "finish"),
                         <<Call("finish", FALSE)>>)
              /\ UNCHANGED disk
  /\ UNCHANGED <<inputs, archive, anc, walk, buffer>>

\* lines 108-118, 162
XzipFinish ==
  /\ pc = "tar_finished"
  /\ compression = "Xzip"
  /\ \E ok \in BOOLEAN :
       IF ok
         THEN /\ Returns(OkResult, <<Call("finish", TRUE)>>)
              /\ disk' = "complete"
         ELSE /\ Returns(Err("LocalAssetArchive", "failed to write archive: {dest_path}", "finish"),
                         <<Call("finish", FALSE)>>)
              /\ UNCHANGED disk
  /\ UNCHANGED <<inputs, archive, anc, walk, buffer>>

\* ZstdNew reporting a failed construction with the reason of a failed finish
ZstdNew_FinishReason ==
  /\ pc = "created"
  /\ compression = "Zstd"
  /\ \E ok \in BOOLEAN :
       IF ok
         THEN Proceeds("encoded", <<Call("encoder", TRUE)>>)
         ELSE Returns(Err("LocalAssetArchive", "failed to write archive: {dest_path}", "encoder"),
                      <<Call("encoder", FALSE)>>)
  /\ UNCHANGED <<inputs, disk, archive, anc, walk, buffer>>

\* lines 121-126: ZstdEncoder::new is fallible
ZstdNew ==
  /\ pc = "created"
  /\ compression = "Zstd"
  /\ \E ok \in BOOLEAN :
       IF ok
         THEN Proceeds("encoded", <<Call("encoder", TRUE)>>)
         ELSE Returns(Err("LocalAssetArchive", "failed to create zstd encoder", "encoder"),
                      <<Call("encoder", FALSE)>>)
  /\ UNCHANGED <<inputs, disk, archive, anc, walk, buffer>>

\* lines 129-137
ZstdAppend ==
  /\ pc = "encoded"
  /\ compression = "Zstd"
  /\ \E ok \in BOOLEAN :
       /\ AppendDirAll(ok)
       /\ IF ok
            THEN Proceeds("appended", <<Call("append_dir_all", TRUE)>>)
            ELSE Returns(Err("LocalAssetArchive", "failed to copy directory into tar: {src_path} => {dir_name}", "append_dir_all"),
                         <<Call("append_dir_all", FALSE)>>)
  /\ UNCHANGED <<inputs, anc, walk, buffer>>

\* lines 139-147
ZstdIntoInner ==
  /\ pc = "appended"
  /\ compression = "Zstd"
  /\ \E ok \in BOOLEAN :
       IF ok
         THEN Proceeds("tar_finished", <<Call("into_inner", TRUE)>>)
         ELSE Returns(Err("LocalAssetArchive", "failed to write tar: {dest_path}", "into_inner"),
                      <<Call("into_inner", FALSE)>>)
  /\ UNCHANGED <<inputs, disk, archive, anc, walk, buffer>>

\* lines 149-159, 162
ZstdFinish ==
  /\ pc = "tar_finished"
  /\ compression = "Zstd"
  /\ \E ok \in BOOLEAN :
       IF ok
         THEN /\ Returns(OkResult, <<Call("finish", TRUE)>>)
              /\ disk' = "complete"
         ELSE /\ Returns(Err("LocalAssetArchive", "failed to write archive: {dest_path}", "finish"),
                         <<Call("finish", FALSE)>>)
              /\ UNCHANGED disk
  /\ UNCHANGED <<inputs, archive, anc, walk, buffer>>

tar_dir ==
  \/ TarCreate
  \/ GzipAppend \/ GzipIntoInner \/ GzipFinish
  \/ XzipAppend \/ XzipIntoInner \/ XzipFinish
  \/ ZstdNew \/ ZstdAppend \/ ZstdIntoInner \/ ZstdFinish

---------------------------------------------------------------------------
(* The directory walker, crate::dirs::walk_dir: a lazy depth-first walk    *)
(* that yields the root first (relative path "") and then every object     *)
(* below it, a directory before its contents.  Each item is Ok(entry) or   *)
(* Err; the walk cannot descend into a directory whose item was an Err.    *)
(* The item of the root is an Err exactly when nothing exists at the root. *)

Top(st) == st[Len(st)]

Unseen(t, d, sn) == Children(t, d) \ sn

\* leave the directories that have nothing more to yield
RECURSIVE PopDone(_, _, _)
PopDone(t, st, sn) ==
  IF st = <<>> \/ Unseen(t, Top(st), sn) # {} THEN st
  ELSE PopDone(t, SubSeq(st, 1, Len(st) - 1), sn)

\* the objects the iterator's next() may yield
WalkNext(t, st, sn) ==
  IF Root \notin sn THEN {Root}
  ELSE IF st = <<>> THEN {}
  ELSE Unseen(t, Top(st), sn)

\* the iterator after yielding Ok(c)
WalkOk(c) ==
  /\ KindOf(src_tree, c) # "none"
  /\ seen' = seen \cup {c}
  /\ stack' = PopDone(src_tree,
                      IF KindOf(src_tree, c) = "dir" THEN Append(stack, c) ELSE stack,
                      seen \cup {c})
  /\ UNCHANGED skipped

\* the iterator after yielding an Err for c
WalkErr(c) ==
  /\ c = Root => KindOf(src_tree, Root) = "none"
  /\ seen' = seen \cup {c}
  /\ stack' = PopDone(src_tree, stack, seen \cup {c})
  /\ skipped' = skipped \cup {c}

---------------------------------------------------------------------------
(* zip_dir.                                                                *)

\* ZipName with the prefix forgotten
ZipName_NoPrefix(root, rel) == rel

\* lines 202-206: optionally apply the root prefix
ZipName(root, rel) == IF root.some THEN Join(root.path, rel) ELSE rel

\* BufferClear that clears nothing
BufferClear_Kept(b) == b

\* line 216: buffer.clear()
BufferClear(b) == <<>>

\* ZipWriter::add_directory(name): the entry's name gets a trailing
\* separator unless it has one
AddDirectory(name) == Entry(WithSlash(name), "dir", <<>>)

ZipErr(step) == Err("ZipError::Io", "", step)

\* lines 177-186: create the destination, start the walk and the writer;
\* line 190: root.ancestors()
ZipCreate ==
  /\ pc = "start"
  /\ compression = "Zip"
  /\ \E ok \in CreateOutcomes :
       IF ok
         THEN /\ disk' = Created(disk)
              /\ file_open' = TRUE
              /\ anc' = IF with_root.some THEN Ancestors(with_root.path) ELSE <<>>
              /\ pc' = IF with_root.some THEN "prefix" ELSE "walk"
              /\ log' = Append(log, Call("create", TRUE))
              /\ UNCHANGED result
         ELSE /\ Returns(ZipErr("create"), <<Call("create", FALSE)>>)
              /\ UNCHANGED <<disk, anc>>
  /\ UNCHANGED <<inputs, archive, walk, buffer>>

\* after one iteration of the loop over the ancestors
PrefixLoop == IF Len(anc) > 1 THEN "prefix" ELSE "walk"

\* lines 190-193: a directory entry for a non-empty ancestor of the prefix
ZipPrefixEntry ==
  /\ pc = "prefix"
  /\ ~IsEmpty(Head(anc))
  /\ \E ok \in BOOLEAN :
       IF ok
         THEN /\ archive' = Append(archive, AddDirectory(Head(anc)))
              /\ anc' = Tail(anc)
              /\ Proceeds(PrefixLoop, <<Call("add_directory", TRUE)>>)
         ELSE /\ Returns(ZipErr("add_directory"), <<Call("add_directory", FALSE)>>)
              /\ UNCHANGED <<archive, anc>>
  /\ disk' = "partial"
  /\ UNCHANGED <<inputs, walk, buffer>>

\* ZipPrefixSkip that writes an entry for the empty ancestor
ZipPrefixSkip_Entry ==
  /\ pc = "prefix"
  /\ IsEmpty(Head(anc))
  /\ archive' = Append(archive, AddDirectory(Head(anc)))
  /\ anc' = Tail(anc)
  /\ pc' = PrefixLoop
  /\ UNCHANGED <<inputs, result, disk, file_open, walk, buffer, log>>

\* lines 190-191: the empty ancestor gets no entry
ZipPrefixSkip ==
  /\ pc = "prefix"
  /\ IsEmpty(Head(anc))
  /\ anc' = Tail(anc)
  /\ pc' = PrefixLoop
  /\ UNCHANGED <<inputs, result, disk, file_open, archive, walk, buffer, log>>

\* ZipSkipErr that propagates the error of the walk item
ZipSkipErr_Aborts ==
  /\ pc = "walk"
  /\ \E c \in WalkNext(src_tree, stack, seen) : WalkErr(c)
  /\ Returns(ZipErr("walk"), <<>>)
  /\ UNCHANGED <<inputs, disk, archive, anc, buffer>>

\* line 198: filter_map(|e| e.ok()) drops the items that are errors
ZipSkipErr ==
  /\ pc = "walk"
  /\ \E c \in WalkNext(src_tree, stack, seen) : WalkErr(c)
  /\ UNCHANGED <<inputs, pc, result, disk, file_open, archive, anc, buffer, log>>

\* lines 199-216: a file entry
ZipWriteFile ==
  /\ pc = "walk"
  /\ \E c \in WalkNext(src_tree, stack, seen) :
       LET name == ZipName(with_root, Str(c, FALSE))
           read == buffer \o Bytes(c)
       IN
       /\ IsFile(src_tree, c)
       /\ WalkOk(c)
       /\ \E failed \in {"start_file", "open", "read_to_end", "write_all", "none"} :
            CASE failed = "start_file" ->
                   /\ Returns(ZipErr(failed), <<Call("start_file", FALSE)>>)
                   /\ UNCHANGED <<archive, buffer>>
              [] failed = "open" ->
                   /\ Returns(ZipErr(failed), <<Call("start_file", TRUE), Call("open", FALSE)>>)
                   /\ archive' = Append(archive, Entry(name, "file", <<>>))
                   /\ UNCHANGED buffer
              [] failed = "read_to_end" ->
                   /\ Returns(ZipErr(failed),
                              <<Call("start_file", TRUE), Call("open", TRUE), Call("read_to_end", FALSE)>>)
                   /\ archive' = Append(archive, Entry(name, "file", <<>>))
                   /\ UNCHANGED buffer
              [] failed = "write_all" ->
                   /\ Returns(ZipErr(failed),
                              <<Call("start_file", TRUE), Call("open", TRUE), Call("read_to_end", TRUE),
                                Call("write_all", FALSE)>>)
                   /\ archive' = Append(archive, Entry(name, "file", <<>>))
                   /\ buffer' = read
              [] OTHER ->
                   /\ Proceeds("walk",
                               <<Call("start_file", TRUE), Call("open", TRUE), Call("read_to_end", TRUE),
                                 Call("write_all", TRUE)>>)
                   /\ archive' = Append(archive, Entry(name, "file", read))
                   /\ buffer' = BufferClear(read)
  /\ disk' = "partial"
  /\ UNCHANGED <<inputs, anc>>

\* ZipAddDirectory without the test for the empty name
ZipAddDirectory_NoRootCheck ==
  /\ pc = "walk"
  /\ \E c \in WalkNext(src_tree, stack, seen) :
       LET name == ZipName(with_root, Str(c, FALSE)) IN
       /\ ~IsFile(src_tree, c)
       /\ WalkOk(c)
       /\ \E ok \in BOOLEAN :
            IF ok
              THEN /\ archive' = Append(archive, AddDirectory(name))
                   /\ Proceeds("walk", <<Call("add_directory", TRUE)>>)
              ELSE /\ Returns(ZipErr("add_directory"), <<Call("add_directory", FALSE)>>)
                   /\ UNCHANGED archive
  /\ disk' = "partial"
  /\ UNCHANGED <<inputs, anc, buffer>>

\* ZipAddDirectory that walks past a directory without writing its entry
ZipAddDirectory_NoEntry ==
  /\ pc = "walk"
  /\ \E c \in WalkNext(src_tree, stack, seen) :
       /\ ~IsFile(src_tree, c)
       /\ ~IsEmpty(ZipName(with_root, Str(c, FALSE)))
       /\ WalkOk(c)
  /\ UNCHANGED <<inputs, pc, result, disk, file_open, archive, anc, buffer, log>>

\* lines 217-220: everything that is not a file and whose name is not
\* empty gets a directory entry
ZipAddDirectory ==
  /\ pc = "walk"
  /\ \E c \in WalkNext(src_tree, stack, seen) :
       LET name == ZipName(with_root, Str(c, FALSE)) IN
       /\ ~IsFile(src_tree, c)
       /\ ~IsEmpty(name)
       /\ WalkOk(c)
       /\ \E ok \in BOOLEAN :
            IF ok
              THEN /\ archive' = Append(archive, AddDirectory(name))
                   /\ Proceeds("walk", <<Call("add_directory", TRUE)>>)
              ELSE /\ Returns(ZipErr("add_directory"), <<Call("add_directory", FALSE)>>)
                   /\ UNCHANGED archive
  /\ disk' = "partial"
  /\ UNCHANGED <<inputs, anc, buffer>>

\* line 217: not a file and the name is empty: no entry
ZipSkipRoot ==
  /\ pc = "walk"
  /\ \E c \in WalkNext(src_tree, stack, seen) :
       /\ ~IsFile(src_tree, c)
       /\ IsEmpty(ZipName(with_root, Str(c, FALSE)))
       /\ WalkOk(c)
  /\ UNCHANGED <<inputs, pc, result, disk, file_open, archive, anc, buffer, log>>

\* lines 223-224: the walk is over
ZipFinish ==
  /\ pc = "walk"
  /\ WalkNext(src_tree, stack, seen) = {}
  /\ \E ok \in BOOLEAN :
       IF ok
         THEN /\ Returns(OkResult, <<Call("zip_finish", TRUE)>>)
              /\ disk' = "complete"
         ELSE /\ Returns(ZipErr("zip_finish"), <<Call("zip_finish", FALSE)>>)
              /\ disk' = "partial"
  /\ UNCHANGED <<inputs, archive, anc, walk, buffer>>

zip_dir ==
  \/ ZipCreate
  \/ ZipPrefixEntry \/ ZipPrefixSkip
  \/ ZipSkipErr \/ ZipWriteFile \/ ZipAddDirectory \/ ZipSkipRoot
  \/ ZipFinish

Next == tar_dir \/ zip_dir

Spec == Init /\ [][Next]_vars

---------------------------------------------------------------------------
(* Two calls on two threads, with different destinations and the same      *)
(* source.  Everything a call works on is an argument or a local of        *)
(* tar_dir / zip_dir, so each call has its own; the source is only read.   *)
(* The variables of the module are those of the call that is running;      *)
(* `other` holds those of the call that is not.                            *)

\* the state of the running call
Running ==
  [compression |-> compression, with_root |-> with_root, dest_path |-> dest_path,
   prior |-> prior, pc |-> pc, result |-> result, disk |-> disk, file_open |-> file_open,
   archive |-> archive, anc |-> anc, seen |-> seen, stack |-> stack, skipped |-> skipped,
   buffer |-> buffer, log |-> log]

\* LocalBuffer for a buffer that is one static shared by all calls
LocalBuffer_Static(mine, theirs) == theirs

\* line 197: `let mut buffer = Vec::new()` is a local of the call: the
\* buffer a call finds when it runs on is its own (mine), whatever the
\* call that ran meanwhile did to its buffer (theirs)
LocalBuffer(mine, theirs) == mine

\* the scheduler lets the other thread run
Switch ==
  /\ other # NoCall
  /\ pc \notin {"done", "panicked"} \/ other.pc \notin {"done", "panicked"}
  /\ other' = [Running EXCEPT !.buffer = LocalBuffer(buffer, other.buffer)]
  /\ compression' = other.compression
  /\ with_root' = other.with_root
  /\ dest_path' = other.dest_path
  /\ prior' = other.prior
  /\ pc' = other.pc
  /\ result' = other.result
  /\ disk' = other.disk
  /\ file_open' = other.file_open
  /\ archive' = other.archive
  /\ anc' = other.anc
  /\ seen' = other.seen
  /\ stack' = other.stack
  /\ skipped' = other.skipped
  /\ buffer' = LocalBuffer(other.buffer, buffer)
  /\ log' = other.log
  /\ UNCHANGED <<src_tree, asset>>

\* the source both calls archive: a file and a directory with a file in it
ParTrees == {t \in Trees : t[Root] = "dir" /\ Present(t) = {<<"a">>, <<"sub">>, <<"sub", "b">>} /\ t[<<"a">>] = "file" /\ t[<<"sub", "b">>] = "file"}

ParPrefixes == {None, Some(EmptyPath), Some(Str(<<"pkg">>, FALSE))}

\* a call that has not started
NewCalls ==
  { c \in [compression : {"Gzip", "Xzip", "Zstd", "Zip"}, with_root : ParPrefixes,
            dest_path : DestPaths, prior : {"absent", "prior"}, pc : {"start"},
            result : {NoResult}, disk : {"absent", "prior"}, file_open : {FALSE},
            archive : {<<>>}, anc : {<<>>}, seen : {{}}, stack : {<<>>}, skipped : {{}},
            buffer : {<<>>}, log : {<<>>}] :
      c.disk = c.prior /\ c.prior \in Priors(c.dest_path) }

InitPar ==
  /\ asset = NoAsset
  /\ src_tree \in ParTrees
  /\ other \in NewCalls
  /\ \E c \in NewCalls :
       /\ compression = c.compression
       /\ with_root = c.with_root
       /\ dest_path = c.dest_path
       /\ prior = c.prior
       /\ pc = c.pc
       /\ result = c.result
       /\ disk = c.disk
       /\ file_open = c.file_open
       /\ archive = c.archive
       /\ anc = c.anc
       /\ seen = c.seen
       /\ stack = c.stack
       /\ skipped = c.skipped
       /\ buffer = c.buffer
       /\ log = c.log

NextPar == Next \/ Switch

SpecPar == InitPar /\ [][NextPar]_vars

\* a call is synchronous code on one thread: it keeps taking its next step
\* until it has returned or panicked
FairSpec == Spec /\ WF_vars(Next)

---------------------------------------------------------------------------
(* What the claims speak of.                                               *)

InLog(c) == \E i \in DOMAIN log : log[i] = c

IsTar == compression \in {"Gzip", "Xzip", "Zstd"}

IsZip == compression = "Zip"

Returned == pc = "done"

Succeeded == pc = "done" /\ result = OkResult

\* the ArchiveRequest invariant: src_path exists and is a directory
SrcIsDir == KindOf(src_tree, Root) = "dir"

\* the components of the root prefix, none when with_root is None
PrefixOf(root) == IF root.some THEN root.path.comps ELSE <<>>

\* the walk yielded Ok(entry) for p
Yielded(p) == p \in seen \ skipped

\* the walk item of p, or of a directory above p, was an Err
Lost(p) == \E q \in skipped : IsPrefixOf(q, p)

\* the archive holds an entry for the source object at relative path p
HasEntry(p) == \E i \in DOMAIN archive : archive[i].name.comps = PrefixOf(with_root) \o p

\* neither a regular file nor a directory
Unsupported(p) == KindOf(src_tree, p) \in {"link", "special"}

\* C1: a call of zip_dir whose walk yielded an entry that is neither a
\* regular file nor a directory returns an unsupported-entry error, and no
\* archive entry is ever written for such an object.
C1_UnsupportedEntryFails ==
  IsZip =>
    /\ Returned /\ (\E p \in Present(src_tree) : Unsupported(p) /\ Yielded(p))
         => result.kind = "UnsupportedEntry"
    /\ \A p \in Present(src_tree) : Unsupported(p) => ~HasEntry(p)

\* C2: tar_dir returns Ok only if destination create, compressor
\* construction, append, tar finalize and compressor finalize all succeeded
\* in this call, and a failed finalize phase makes the call return an error.
C2_TarOkOnlyIfEveryStepSucceeded ==
  IsTar =>
    /\ result = OkResult =>
         /\ \A op \in {"create", "encoder", "append_dir_all", "into_inner", "finish"} :
              InLog(Call(op, TRUE))
         /\ \A i \in DOMAIN log : log[i].ok
    /\ InLog(Call("into_inner", FALSE)) \/ InLog(Call("finish", FALSE))
         => Returned /\ result.kind = "LocalAssetArchive"

\* a tar call that returned Ok through the zstd arm (five fallible steps)
C2_Witness ==
  /\ compression = "Zstd"
  /\ Succeeded
  /\ InLog(Call("finish", TRUE))
  /\ archive # <<>>

\* C3 as stated: whenever zip_dir returns success, every object below the
\* source directory has an entry in the archive.
C3_EveryObjectArchived ==
  IsZip /\ Succeeded => \A p \in Present(src_tree) : HasEntry(p)

\* C3 as amended: whenever zip_dir returns success, every object the walk
\* yielded has an entry; an object has none only if its walk item, or that
\* of a directory above it, was an error.
C3_EveryYieldedObjectArchived ==
  IsZip /\ Succeeded =>
    \A p \in Present(src_tree) :
      /\ Yielded(p) => HasEntry(p)
      /\ ~HasEntry(p) => Lost(p)

\* zip_dir returned success although the walk lost an object, and the
\* objects it did yield are in the archive
C3_Witness ==
  /\ IsZip
  /\ Succeeded
  /\ skipped # {}
  /\ \E p \in Present(src_tree) : Yielded(p) /\ HasEntry(p)


the_writes == {"append_dir_all", "add_directory", "start_file", "write_all"}

\* log[i] is the call op, and it succeeded
Did(i, op) == i \in DOMAIN log /\ log[i] = Call(op, TRUE)

C5_MissingParentIsCreateError ==
  ~dest_path.parent_exists /\ pc # "start" =>
    /\ Returned
    /\ result.kind \in {"LocalAssetWriteNewFailed", "ZipError::Io"}
    /\ result.step = "create"
    /\ archive = <<>>
    /\ \A i \in DOMAIN log : log[i].op \in {"file_name", "create"}

\* the in-archive names written so far
Names == {archive[i].name : i \in DOMAIN archive}

NonEmptyPrefix == with_root.some /\ with_root.path.comps # <<>>

\* a proper, non-empty ancestor of the root prefix
ProperAncestor(comps) ==
  comps # <<>> /\ comps # PrefixOf(with_root) /\ IsPrefixOf(comps, PrefixOf(with_root))

\* C6 as stated: with a non-empty root prefix P, every entry written to
\* the archive (zip and tar) has all of P's components as its prefix.
C6_EveryEntryUnderPrefix ==
  NonEmptyPrefix => \A n \in Names : IsPrefixOf(PrefixOf(with_root), n.comps)

\* C6 as amended: with a non-empty root prefix P, every entry written has
\* all of P's components as its prefix, except the directory entries that
\* zip_dir writes for the proper non-empty ancestors of P.
C6_EveryEntryUnderPrefixOrItsAncestor ==
  NonEmptyPrefix =>
    \A i \in DOMAIN archive :
      \/ IsPrefixOf(PrefixOf(with_root), archive[i].name.comps)
      \/ /\ IsZip
         /\ archive[i].kind = "dir"
         /\ ProperAncestor(archive[i].name.comps)

\* a zip call with a two-component prefix that archived a file below it
C6_Witness ==
  /\ IsZip
  /\ Succeeded
  /\ Len(PrefixOf(with_root)) = 2
  /\ \E i \in DOMAIN archive : archive[i].kind = "file"
  /\ \E i \in DOMAIN archive : ProperAncestor(archive[i].name.comps)

\* C7: with no root prefix and a source that is a directory, tar_dir
\* appends under the empty in-archive path, and in both pipelines every
\* entry is at the source-relative path of the object it archives; after
\* success every file (in zip: every file the walk yielded) is there with
\* its bytes.
C7_NoPrefixKeepsRelativePaths ==
  SrcIsDir /\ ~with_root.some =>
    /\ IsTar => IsEmpty(DirName(with_root))
    /\ \A i \in DOMAIN archive :
         /\ archive[i].name.comps \in Present(src_tree)
         /\ archive[i].kind = "file" => IsFile(src_tree, archive[i].name.comps)
         /\ archive[i].kind = "dir" => ~IsFile(src_tree, archive[i].name.comps)
    /\ Succeeded =>
         \A p \in Present(src_tree) :
           IsFile(src_tree, p) /\ (IsTar \/ Yielded(p)) =>
             \E i \in DOMAIN archive : archive[i] = Entry(Str(p, FALSE), "file", Bytes(p))

\* a tar call without prefix that archived a file of a subdirectory
C7_Witness ==
  /\ IsTar
  /\ ~with_root.some
  /\ Succeeded
  /\ \E i \in DOMAIN archive : archive[i].kind = "file" /\ Len(archive[i].name.comps) = 2

\* extracting an archive: a file per file entry, the last entry of a name
\* winning
Extracted(arch) ==
  { <<arch[i].name.comps, arch[i].bytes>> :
      i \in { j \in DOMAIN arch :
                /\ arch[j].kind = "file"
                /\ \A k \in (j + 1)..Len(arch) : arch[k].name.comps # arch[j].name.comps } }

\* the files of the source tree: relative path and bytes
SourceFiles(t) == { <<p, Bytes(p)>> : p \in {q \in Present(t) : IsFile(t, q)} }

\* C8 as stated: a successful call on a directory without prefix, then
\* extraction, gives exactly the relative file paths of the source tree
\* with the same bytes.
C8_RoundTrip ==
  SrcIsDir /\ Succeeded /\ ~with_root.some => Extracted(archive) = SourceFiles(src_tree)

\* C8 as amended: a successful call on a directory without prefix, then
\* extraction, gives only files of the source tree, with the same bytes;
\* for the tar formats none is missing, for zip exactly those are missing
\* whose walk item, or that of a directory above them, was an error.
C8_RoundTripOfYieldedFiles ==
  SrcIsDir /\ Succeeded /\ ~with_root.some =>
    /\ Extracted(archive) = { f \in SourceFiles(src_tree) : ~Lost(f[1]) }
    /\ IsTar => skipped = {}

\* a zip call without prefix that returned success, archived two files
\* and lost another object
C8_Witness ==
  /\ IsZip
  /\ Succeeded
  /\ ~with_root.some
  /\ Cardinality(Extracted(archive)) = 2
  /\ skipped # {}

\* C9: in zip_dir on a source directory every directory the walk yields,
\* empty ones included, gets a directory entry at its computed name, the
\* root (whose computed name is empty) gets none, and no entry with an
\* empty name is written.
C9_DirectoryEntries ==
  IsZip /\ SrcIsDir =>
    /\ \A n \in Names : n.comps # <<>>
    /\ pc = "walk" \/ Succeeded =>
         \A p \in Present(src_tree) :
           KindOf(src_tree, p) = "dir" /\ Yielded(p) =>
             \E i \in DOMAIN archive :
               archive[i] = Entry(Str(PrefixOf(with_root) \o p, TRUE), "dir", <<>>)

\* a zip call without prefix that walked the root and an empty directory
C9_Witness ==
  /\ IsZip
  /\ Succeeded
  /\ ~with_root.some
  /\ Yielded(Root)
  /\ \E p \in Present(src_tree) :
       /\ KindOf(src_tree, p) = "dir"
       /\ Children(src_tree, p) = {}
       /\ Str(p, TRUE) \in Names

\* the names the prefix and the source tree call for
ExpectedNames ==
  { Str(SubSeq(PrefixOf(with_root), 1, n), TRUE) : n \in 1..Len(PrefixOf(with_root)) }
  \cup { Str(PrefixOf(with_root) \o p, ~IsFile(src_tree, p)) : p \in Present(src_tree) }

\* C10: zip_dir on a directory with a non-empty root prefix writes exactly one directory
\* entry per non-empty ancestor of the prefix, the prefix included, and one
\* entry per file and directory of the source under the prefix, each name
\* once.
C10_EachNameOnce ==
  IsZip /\ SrcIsDir /\ Succeeded /\ NonEmptyPrefix /\ skipped = {} =>
    /\ Names = ExpectedNames
    /\ \A i, j \in DOMAIN archive : i # j => archive[i].name # archive[j].name

\* C11: a call whose source path does not exist, or is not a directory,
\* never returns success, in either pipeline.
C11_BadSourceRejected ==
  Returned /\ ~SrcIsDir => result # OkResult

\* what an error value of tar_dir holds: the fields of its variant and the
\* paths formatted into its reason
Context(r) ==
  CASE r.kind = "LocalAssetWriteNewFailed" -> {"dest_path", "details"}
    [] r.kind = "LocalAssetArchive"
         /\ r.reason = "failed to copy directory into tar: {src_path} => {dir_name}"
       -> {"src_path", "dir_name", "details"}
    [] r.kind = "LocalAssetArchive"
         /\ r.reason \in {"failed to write tar: {dest_path}", "failed to write archive: {dest_path}"}
       -> {"dest_path", "details"}
    [] r.kind = "LocalAssetArchive" -> {"details"}
    [] OTHER -> {}

IsError(r) == r.kind \notin {"none", "Ok", "panic"}

\* C12: every error tar_dir returns, at whatever step, carries the source
\* path, the destination path and the underlying I/O error.
C12_TarErrorCarriesBothPaths ==
  IsTar /\ Returned /\ IsError(result) =>
    {"src_path", "dest_path", "details"} \subseteq Context(result)

\* the steps that write an entry into the container
entry_writes == {"append_dir_all", "add_directory", "start_file", "open", "read_to_end", "write_all"}

\* the kind of error a failed destination create gives in this pipeline
CreateFailureKind == IF IsTar THEN "LocalAssetWriteNewFailed" ELSE ZipErr("create").kind

\* C13: in both pipelines a failure to write an entry never has the error
\* kind of a failure to create the destination, and a failure to create the
\* destination always has that kind.
C13_CreateAndWriteFailuresDiffer ==
  Returned /\ IsError(result) =>
    /\ result.step = "create" => result.kind = CreateFailureKind
    /\ result.step \in entry_writes => result.kind # CreateFailureKind

\* variant and reason: what a caller can tell errors apart by
Shown(r) == <<r.kind, r.reason>>

EncoderFailure == <<"LocalAssetArchive", "failed to create zstd encoder">>

\* C14: in the zstd pipeline a failed construction of the encoder is
\* returned as an error that no other failing step (destination create,
\* append, tar finalize, encoder finish) returns, and when it is returned
\* nothing was appended and nothing finalized.
C14_EncoderFailureIsDistinct ==
  IsTar /\ Returned /\ IsError(result) =>
    /\ Shown(result) = EncoderFailure <=> result.step = "encoder"
    /\ result.step = "encoder" =>
         /\ compression = "Zstd"
         /\ archive = <<>>
         /\ \A i \in DOMAIN log : log[i].op \notin {"append_dir_all", "into_inner", "finish"}

\* a zstd call whose encoder could not be constructed
C14_Witness ==
  /\ compression = "Zstd"
  /\ Returned
  /\ InLog(Call("encoder", FALSE))
  /\ result.step = "encoder"

\* File::create succeeded in this call
CreatedDest == InLog(Call("create", TRUE))

\* s is an initial part of t
IsInitialPart(s, t) == Len(s) <= Len(t) /\ SubSeq(t, 1, Len(s)) = s

\* C15: no step of either pipeline deletes the destination file or takes
\* back something written to it; once File::create has succeeded the file
\* exists, and when a later step fails the call returns with the file
\* still there, truncated or partly written.
C15_DestinationNeverDeleted ==
  /\ [][/\ disk # "absent" => disk' # "absent"
        /\ IsInitialPart(archive, archive')
        /\ disk \in {"partial", "complete"} => disk' \in {"partial", "complete"}]_vars
  /\ [](CreatedDest => disk # "absent")
  /\ [](CreatedDest /\ Returned /\ IsError(result) => disk \in {"truncated", "partial"})

\* a gzip call that failed in finish after it wrote entries: the partly
\* written file is still there
C15_Witness ==
  /\ compression = "Gzip"
  /\ Returned
  /\ result.step = "finish"
  /\ archive # <<>>
  /\ disk = "partial"

\* C16: whenever a call has returned, with success or with an error at any
\* step, or has panicked, the destination file handle is not open; a call
\* that opened it released it as its last act.
C16_HandleReleased ==
  pc \in {"done", "panicked"} =>
    /\ ~file_open
    /\ CreatedDest => log[Len(log)] = Call("drop_file", TRUE)

\* a call that failed in the tar finalize, after the file was opened
C16_Witness ==
  /\ Returned
  /\ result.step = "into_inner"
  /\ CreatedDest
  /\ ~file_open

\* C17: the destination is created or truncated: once File::create has
\* succeeded nothing of the prior content (absent, empty, earlier archive)
\* is left, and after success the file is the complete archive, which for
\* tar is the entries of the source under the prefix, whatever was there
\* before.
C17_CreateOrTruncate ==
  /\ CreatedDest => disk \in {"truncated", "partial", "complete"}
  /\ ~CreatedDest => disk = prior /\ archive = <<>>
  /\ Succeeded => disk = "complete"
  /\ Succeeded /\ IsTar => archive = TarEntries(DirName(with_root), src_tree)

\* a call over an earlier archive that returned success and wrote entries
C17_Witness ==
  /\ prior = "prior"
  /\ Succeeded
  /\ disk = "complete"
  /\ archive # <<>>

\* C19: in zip_dir a walk item that is an error is dropped in a step that
\* writes nothing, calls nothing and does not return; an error is returned
\* only when a library call failed, never for the walk error alone; and
\* after success every object whose walk item, and that of every directory
\* above it, was not an error has its entry.
C19_WalkErrorsAreSkipped ==
  /\ [][skipped' # skipped =>
          /\ pc' = pc /\ pc = "walk"
          /\ UNCHANGED <<result, archive, log, disk, file_open>>]_vars
  /\ [](IsZip /\ Returned /\ IsError(result) => \E i \in DOMAIN log : ~log[i].ok)
  /\ [](IsZip /\ SrcIsDir /\ Succeeded =>
          \A p \in Present(src_tree) : ~Lost(p) => HasEntry(p))

\* a zip call under a prefix that dropped a walk error, still wrote the
\* entry of a sibling of the lost object, and returned success
C19_Witness ==
  /\ IsZip
  /\ with_root.some
  /\ Succeeded
  /\ \E q \in skipped : \E p \in Present(src_tree) :
       p # q /\ Parent(p) = Parent(q) /\ Yielded(p) /\ HasEntry(p)

\* how often the call op was made
Count(op) == Cardinality({i \in DOMAIN log : log[i].op = op})

\* the steps of the pipelines that are made once per call
once_steps == {"file_name", "create", "encoder", "append_dir_all", "into_inner", "finish", "zip_finish", "drop_file"}

\* the entry calls of zip_dir: one per non-empty ancestor of the prefix and
\* at most one per object the walk yielded
OncePerEntry == Count("add_directory") + Count("start_file") <= Len(PrefixOf(with_root)) + Cardinality(seen \ skipped)

\* a failed call is the last call, but for the release of the file
FirstFailureEnds ==
  \A i \in DOMAIN log :
    ~log[i].ok =>
      /\ pc \in {"done", "panicked"}
      /\ i = Len(log) \/ (i = Len(log) - 1 /\ log[Len(log)].op = "drop_file")

\* C20: every call terminates by returning success or an error; each
\* step of the pipeline is attempted at most once, and the first failed
\* step ends the call.
C20_TerminatesWithoutRetry ==
  /\ <>Returned
  /\ [](\A op \in once_steps : Count(op) <= 1)
  /\ []OncePerEntry
  /\ []FirstFailureEnds

\* the source object an entry of call c archives: the entry's name without
\* the root prefix of c
ObjectOf(c, e) == SubSeq(e.name.comps, Len(PrefixOf(c.with_root)) + 1, Len(e.name.comps))

\* what holds of a call c that runs alone, whatever its arguments: its
\* buffer is empty between entries, every file entry has the bytes of its
\* source file (the entry being written when a step failed has none), its
\* result is that of its own library calls, and its destination and file
\* handle are as its own steps left them
AsAlone(c) ==
  LET created == \E i \in DOMAIN c.log : c.log[i] = Call("create", TRUE)
      ended == c.pc \in {"done", "panicked"}
  IN
  /\ c.buffer # <<>> => c.pc = "done" /\ c.result.step = "write_all"
  /\ \A i \in DOMAIN c.archive :
       c.archive[i].kind = "file" =>
         \/ c.archive[i].bytes = Bytes(ObjectOf(c, c.archive[i]))
         \/ i = Len(c.archive) /\ c.archive[i].bytes = <<>> /\ IsError(c.result)
  /\ c.result = OkResult <=> c.pc = "done" /\ \A i \in DOMAIN c.log : c.log[i].ok
  /\ IsError(c.result) => \E i \in DOMAIN c.log : c.log[i] = Call(c.result.step, FALSE)
  /\ c.result = NoResult <=> ~ended
  /\ IF created THEN c.disk \in {"truncated", "partial", "complete"} ELSE c.disk = c.prior
  /\ c.disk = "complete" <=> c.result = OkResult
  /\ c.file_open <=> created /\ ~ended
  /\ c.result = OkResult /\ c.compression # "Zip" =>
       c.archive = TarEntries(DirName(c.with_root), src_tree)
  /\ c.result = OkResult /\ c.compression = "Zip" =>
       \A q \in Present(src_tree) :
         (\A k \in c.skipped : ~IsPrefixOf(k, q)) =>
           \E i \in DOMAIN c.archive : c.archive[i].name.comps = PrefixOf(c.with_root) \o q

\* C18: two calls with different destinations on two threads, under every
\* interleaving of their steps: each call's result, archive, destination
\* file, handle and buffer are at every moment what they are for a call
\* that runs alone, also when the other call has ended before it started.
C18_ParallelCallsAreIndependent ==
  AsAlone(Running) /\ AsAlone(other)

\* a zip call that archived both files and returned success after the
\* other zip call had failed in write_all with bytes left in its buffer
C18_Witness ==
  /\ IsZip
  /\ Succeeded
  /\ Cardinality(Extracted(archive)) = 2
  /\ other.pc = "done"
  /\ other.compression = "Zip"
  /\ other.result.step = "write_all"
  /\ other.buffer # <<>>

---------------------------------------------------------------------------
(* The asset API: src/src/lib.rs (Asset, is_remote) and src/src/local.rs   *)
(* (LocalAsset).  An origin path is a string; the model keeps of it what   *)
(* the code looks at: the text before "://", if any, and the components    *)
(* after it.                                                               *)

\* the text before "://": none, or a URL scheme as it is written
Schemes == {"", "http", "https", "HTTP", "httpx", "ftp"}

\* components of a local path; "" is the empty path
LocalComps ==
  { <<>>, <<"dir">>, <<"dir", "a.txt">>, <<"dir", "b.txt">>, <<"dir", "..">>,
    <<"httpd.conf">>, <<"dir", "httpd.conf">>, <<"gone", "a.txt">> }

\* host and path of a URL
UrlComps == { <<"example.com", "a.txt">>, <<"example.com", "img", "b.txt">> }

OriginPaths ==
  { o \in [scheme : Schemes, comps : LocalComps \cup UrlComps] :
      IF o.scheme = "" THEN o.comps \in LocalComps ELSE o.comps \in UrlComps }

\* origin_path.starts_with("http"): a comparison of bytes
StartsWithHttp(o) ==
  \/ o.scheme \in {"http", "https", "httpx"}
  \/ o.scheme = "" /\ o.comps # <<>> /\ o.comps[1] = "httpd.conf"

\* origin_path.parse::<url::Url>(): a string without a scheme is a
\* relative URL, which does not parse; the scheme is lowercased
UrlParse(o) ==
  CASE o.scheme = "" -> [ok |-> FALSE, scheme |-> ""]
    [] o.scheme = "HTTP" -> [ok |-> TRUE, scheme |-> "http"]
    [] OTHER -> [ok |-> TRUE, scheme |-> o.scheme]

\* lines 131-133
is_http(url) == url.scheme = "https" \/ url.scheme = "http"

AssetErr(e) == [kind |-> "Err", error |-> e]

AssetOk(v) == [kind |-> "Ok", value |-> v]

\* lines 109-129
is_remote(o) ==
  IF StartsWithHttp(o)
    THEN IF UrlParse(o).ok
           THEN IF is_http(UrlParse(o)) THEN AssetOk(TRUE)
                ELSE AssetErr("RemoteAssetPathSchemeNotSupported")
           ELSE AssetErr("RemoteAssetPathParseError")
    ELSE AssetOk(FALSE)

\* local.rs lines 252-266: Path::new(origin_path).file_name() is the last
\* component unless the path is empty or ends in ".."
filename(o) ==
  IF o.comps = <<>> \/ o.comps[Len(o.comps)] = ".."
    THEN AssetErr("LocalAssetMissingFilename")
    ELSE AssetOk(o.comps[Len(o.comps)])

\* local.rs lines 26-32
LocalAssetNew(o, contents) ==
  IF filename(o).kind = "Err" THEN filename(o)
  ELSE [kind |-> "LocalAsset", filename |-> filename(o).value, origin_path |-> o, contents |-> contents]

\* lib.rs lines 50-58
AssetNewResult(o, contents) ==
  IF is_remote(o).kind = "Err" THEN is_remote(o)
  ELSE IF is_remote(o).value THEN AssetErr("CannotCreateRemoteAsset")
  ELSE LocalAssetNew(o, contents)

\* contents of files, as bytes
Contents == {<<"x">>, <<"y", "z">>}

\* what the filesystem has at a path: a file with its bytes, or nothing
File(bytes) == [is |-> "file", bytes |-> bytes]

NoFile == [is |-> "none", bytes |-> <<>>]

\* the files the filesystem may hold; a file is below an existing directory
FsFiles == { <<"dir", "a.txt">>, <<"out", "a.txt">> }

FsDirs == { <<"dir">>, <<"out">> }

FileSystems ==
  { f \in [files : [FsFiles -> {File(b) : b \in Contents} \cup {NoFile}], dirs : SUBSET FsDirs] :
      \A q \in FsFiles : f.files[q] # NoFile => Parent(q) \in f.dirs }

\* Asset::new(origin_path, contents)
NewCallsOfAssetNew ==
  { [op |-> "new", origin_path |-> x[1], contents |-> x[2], dest_dir |-> <<>>,
     fs |-> x[3], before |-> x[3], pc |-> "start", result |-> NoResult] :
      x \in OriginPaths \X Contents \X FileSystems }

\* lib.rs lines 50-58: the whole of Asset::new; it calls nothing that
\* touches the filesystem
AssetNew ==
  /\ asset.pc = "start"
  /\ asset.op = "new"
  /\ asset' = [asset EXCEPT !.pc = "done",
                            !.result = AssetNewResult(asset.origin_path, asset.contents)]
  /\ UNCHANGED <<compression, src_tree, with_root, dest_path, prior, other, pc, result, disk,
                 file_open, archive, anc, seen, stack, skipped, buffer, log>>

\* what the filesystem fs has at the origin path o
At(fs, o) == IF o.scheme = "" /\ o.comps \in FsFiles THEN fs.files[o.comps] ELSE NoFile

\* Path::try_exists(): Ok(true) or Ok(false) as something is at the path or
\* not; an Err only when the path cannot be examined (denied)
TryExists(fs, o, denied) ==
  IF denied THEN AssetErr("io") ELSE AssetOk(At(fs, o).is = "file" \/ o.comps \in fs.dirs)

\* fs::read / fs::read_to_string: the bytes of the file at the path; an Err
\* when no file is there, or when reading it fails (io_ok is false)
FsRead(fs, o, io_ok) ==
  IF At(fs, o).is = "file" /\ io_ok THEN AssetOk(At(fs, o).bytes) ELSE AssetErr("io")

\* local.rs lines 36-54 (load), 58-72 (load_string), 76-90 (load_bytes):
\* `Ok(_)` takes both answers of try_exists
LoadResult(op, fs, o, denied, io_ok) ==
  IF TryExists(fs, o, denied).kind = "Ok"
    THEN IF FsRead(fs, o, io_ok).kind = "Ok"
           THEN IF op = "load" THEN LocalAssetNew(o, FsRead(fs, o, io_ok).value)
                ELSE AssetOk(FsRead(fs, o, io_ok).value)
           ELSE AssetErr("LocalAssetReadFailed")
    ELSE AssetErr("LocalAssetNotFound")

\* LocalAsset::load(origin_path), load_string, load_bytes
NewCallsOfLoad ==
  { [op |-> x[1], origin_path |-> x[2], contents |-> <<>>, dest_dir |-> <<>>,
     fs |-> x[3], before |-> x[3], pc |-> "start", result |-> NoResult] :
      x \in {"load", "load_string", "load_bytes"} \X OriginPaths \X FileSystems }

\* the whole of LocalAsset::load / load_string / load_bytes
LocalAssetLoad ==
  /\ asset.pc = "start"
  /\ asset.op \in {"load", "load_string", "load_bytes"}
  /\ \E denied, io_ok \in BOOLEAN :
       asset' = [asset EXCEPT !.pc = "done",
                              !.result = LoadResult(asset.op, asset.fs, asset.origin_path, denied, io_ok)]
  /\ UNCHANGED <<compression, src_tree, with_root, dest_path, prior, other, pc, result, disk,
                 file_open, archive, anc, seen, stack, skipped, buffer, log>>

\* local.rs lines 300-302: Path::new(dest_dir).join(&self.filename)
DestPathOf(dest_dir, fname) == Append(dest_dir, fname)

\* FsWritten that appends to the file that is there
FsWritten_Appended(fs, path, bytes) ==
  [fs EXCEPT !.files[path] = File(fs.files[path].bytes \o bytes)]

\* the filesystem after a successful fs::write(path, bytes), which creates
\* the file or replaces what it held
FsWritten(fs, path, bytes) == [fs EXCEPT !.files[path] = File(bytes)]

\* fs::write can succeed only in an existing directory
CanWrite(fs, path) == Parent(path) \in fs.dirs /\ path \in FsFiles

\* the directories a copy may be asked to write into; "nodir" never exists
DestDirs == FsDirs \cup {<<"nodir">>}

\* copy(origin_path, dest_dir) for an origin that is_remote does not take
\* for a remote asset (lib.rs lines 92-95)
NewCallsOfCopy ==
  { [op |-> "copy", origin_path |-> x[1], contents |-> <<>>, dest_dir |-> x[2],
     fs |-> x[3], before |-> x[3], pc |-> "start", result |-> NoResult] :
      x \in {o \in OriginPaths : is_remote(o) # AssetOk(TRUE)} \X DestDirs \X FileSystems }

\* lib.rs lines 90-96, local.rs lines 202-204 and 94-104: load the origin,
\* then write its contents to dest_dir/filename; a failed fs::write may
\* have created or emptied the file already
LocalAssetCopy ==
  /\ asset.pc = "start"
  /\ asset.op = "copy"
  /\ \E denied, io_ok \in BOOLEAN, w \in {"ok", "not_opened", "not_written"} :
       LET remote == is_remote(asset.origin_path)
           loaded == LoadResult("load", asset.fs, asset.origin_path, denied, io_ok)
           dest == DestPathOf(asset.dest_dir, loaded.filename)
       IN
       IF remote.kind = "Err"
         THEN asset' = [asset EXCEPT !.pc = "done", !.result = remote]
       ELSE IF loaded.kind = "Err"
         THEN asset' = [asset EXCEPT !.pc = "done", !.result = loaded]
       ELSE IF w = "ok" /\ CanWrite(asset.fs, dest)
         THEN asset' = [asset EXCEPT !.pc = "done", !.result = AssetOk(dest),
                                     !.fs = FsWritten(asset.fs, dest, loaded.contents)]
       ELSE IF w = "not_written" /\ CanWrite(asset.fs, dest)
         THEN asset' = [asset EXCEPT !.pc = "done", !.result = AssetErr("LocalAssetWriteFailed"),
                                     !.fs = FsWritten(asset.fs, dest, <<>>)]
       ELSE asset' = [asset EXCEPT !.pc = "done", !.result = AssetErr("LocalAssetWriteFailed")]
  /\ UNCHANGED <<compression, src_tree, with_root, dest_path, prior, other, pc, result, disk,
                 file_open, archive, anc, seen, stack, skipped, buffer, log>>

---------------------------------------------------------------------------
(* SourceFile::span_for_line_col, src/src/source.rs lines 128-143.  The    *)
(* contents are a sequence of one-byte characters.                         *)

UsizeMax == 2 ^ UsizeBits - 1

NoneValue == [some |-> FALSE, value |-> 0]

SomeValue(v) == [some |-> TRUE, value |-> v]

\* usize::checked_sub and usize::checked_add
CheckedSub(a, b) == IF a < b THEN NoneValue ELSE SomeValue(a - b)

CheckedAdd(a, b) == IF a + b > UsizeMax THEN NoneValue ELSE SomeValue(a + b)

SrcChars == {"a", "\n"}

Sources == UNION { [1..n -> SrcChars] : n \in 0..MaxSrcLen }

\* str::lines(): the byte offsets at which the lines of src start; a line
\* ends at a newline or at the end, and a final newline starts no line
LineStarts(src) ==
  IF src = <<>> THEN {}
  ELSE {0} \cup {k \in 1..(Len(src) - 1) : src[k] = "\n"}

\* the length in bytes of the line that starts at offset s, newline excluded
LineLen(src, s) ==
  LET ends == {k \in (s + 1)..Len(src) : src[k] = "\n"} IN
  IF ends = {} THEN Len(src) - s
  ELSE (CHOOSE k \in ends : \A j \in ends : k <= j) - 1 - s

\* src.lines().nth(n): the offset of the line, if there is one
NthLine(src, n) ==
  LET at_n == {s \in LineStarts(src) : Cardinality({t \in LineStarts(src) : t < s}) = n} IN
  IF at_n = {} THEN NoneValue ELSE SomeValue(CHOOSE s \in at_n : TRUE)

\* SourceSpan::from(start..end)
Span(start, end) == [some |-> TRUE, offset |-> start, len |-> end - start]

NoSpan == [some |-> FALSE, offset |-> 0, len |-> 0]

\* lines 128-143
span_for_line_col(src, line, col) ==
  LET n == CheckedSub(line, 1)
      src_line == NthLine(src, n.value)
      line_offset == src_line.value
      sum == CheckedAdd(line_offset, col)
      start == CheckedSub(sum.value, 1)
      end == CheckedAdd(start.value, 1)
  IN
  IF ~n.some \/ ~src_line.some THEN NoSpan
  ELSE IF col > LineLen(src, line_offset) THEN NoSpan
  ELSE IF ~sum.some \/ ~start.some \/ ~end.some THEN NoSpan
  ELSE IF start.value > end.value \/ end.value >= Len(src) THEN NoSpan
  ELSE Span(start.value, end.value)

\* source.span_for_line_col(line, col)
NewCallsOfSpan ==
  { [op |-> "span_for_line_col", contents |-> x[1], line |-> x[2], col |-> x[3],
     pc |-> "start", result |-> NoResult] :
      x \in Sources \X (0..UsizeMax) \X (0..UsizeMax) }

\* the whole of SourceFile::span_for_line_col
SpanForLineCol ==
  /\ asset.pc = "start"
  /\ asset.op = "span_for_line_col"
  /\ asset' = [asset EXCEPT !.pc = "done",
                            !.result = span_for_line_col(asset.contents, asset.line, asset.col)]
  /\ UNCHANGED <<compression, src_tree, with_root, dest_path, prior, other, pc, result, disk,
                 file_open, archive, anc, seen, stack, skipped, buffer, log>>

\* no archive call is in progress
ArchiveIdle ==
  /\ compression = "Zip"
  /\ src_tree = [p \in Universe \cup {Root} |-> "none"]
  /\ with_root = None
  /\ dest_path = [has_name |-> TRUE, parent_exists |-> TRUE]
  /\ prior = "absent"
  /\ pc = "idle"
  /\ result = NoResult
  /\ disk = "absent"
  /\ file_open = FALSE
  /\ archive = <<>>
  /\ anc = <<>>
  /\ seen = {}
  /\ stack = <<>>
  /\ skipped = {}
  /\ buffer = <<>>
  /\ log = <<>>
  /\ other = NoCall

AssetCalls == NewCallsOfAssetNew \cup NewCallsOfLoad \cup NewCallsOfCopy \cup NewCallsOfSpan

InitAsset == ArchiveIdle /\ asset \in AssetCalls

NextAsset == AssetNew \/ LocalAssetLoad \/ LocalAssetCopy \/ SpanForLineCol

SpecAsset == InitAsset /\ [][NextAsset]_vars

\* the origin path is a URL whose scheme is http or https
IsHttpUrl(o) == UrlParse(o).ok /\ is_http(UrlParse(o))

AssetDone(op) == asset.pc = "done" /\ asset.op = op

\* C21: Asset::new never returns a remote asset and leaves the filesystem
\* as it was; for an origin path that is an http or https URL it returns
\* CannotCreateRemoteAsset, and whenever it returns an asset that is a
\* LocalAsset whose filename is the last component of the origin path and
\* whose contents are the bytes given.
C21_NewIsLocalOnly ==
  AssetDone("new") =>
    /\ asset.result.kind \in {"LocalAsset", "Err"}
    /\ asset.fs = asset.before
    /\ IsHttpUrl(asset.origin_path) => asset.result = AssetErr("CannotCreateRemoteAsset")
    /\ asset.result.kind = "LocalAsset" =>
         /\ asset.result.filename = asset.origin_path.comps[Len(asset.origin_path.comps)]
         /\ asset.result.contents = asset.contents

\* the path as an origin path
AsOrigin(path) == [scheme |-> "", comps |-> path]

\* C22: a successful copy(p, d) of a local file returns the path
\* d/filename(p); afterwards a file is there, loading it gives exactly the
\* bytes p had when the copy began, and the file at p holds what it held.
C22_CopyKeepsBytes ==
  AssetDone("copy") /\ asset.result.kind = "Ok" =>
    LET p == asset.origin_path
        copied == asset.result.value
    IN
    /\ At(asset.before, p).is = "file"
    /\ copied = asset.dest_dir \o <<p.comps[Len(p.comps)]>>
    /\ asset.fs.files[copied].is = "file"
    /\ \A denied \in {FALSE}, io_ok \in {TRUE} :
         LoadResult("load_bytes", asset.fs, AsOrigin(copied), denied, io_ok)
           = AssetOk(At(asset.before, p).bytes)
    /\ At(asset.fs, p) = At(asset.before, p)

\* a copy into a directory where a file of that name held other bytes
C22_Witness ==
  /\ AssetDone("copy")
  /\ asset.result.kind = "Ok"
  /\ asset.result.value # asset.origin_path.comps
  /\ asset.before.files[asset.result.value].is = "file"
  /\ asset.before.files[asset.result.value] # asset.fs.files[asset.result.value]
  /\ asset.fs.files[asset.result.value].bytes # <<>>

\* C23: LocalAsset::load, load_string and load_bytes called with a path at
\* which no file exists return LocalAssetNotFound, not LocalAssetReadFailed.
C23_MissingFileIsNotFound ==
  /\ asset.pc = "done"
  /\ asset.op \in {"load", "load_string", "load_bytes"}
  /\ At(asset.before, asset.origin_path) = NoFile
  => asset.result = AssetErr("LocalAssetNotFound")

\* (line, col), both counted from 1, name a character of a line of src
NamesCharacter(src, line, col) ==
  /\ line >= 1
  /\ NthLine(src, line - 1).some
  /\ col >= 1
  /\ col <= LineLen(src, NthLine(src, line - 1).value)

\* C24: span_for_line_col counts lines and columns from 1: for (line, col)
\* naming an existing character it returns the one-byte span at the byte
\* offset of the line plus col - 1, and for a line or column that is zero
\* or out of bounds it returns None.
C24_SpanOfLineCol ==
  AssetDone("span_for_line_col") =>
    IF NamesCharacter(asset.contents, asset.line, asset.col)
      THEN asset.result =
             [some |-> TRUE, len |-> 1,
              offset |-> NthLine(asset.contents, asset.line - 1).value + asset.col - 1]
      ELSE asset.result = NoSpan

\* the directory entries of the non-empty ancestors of the root prefix
PrefixEntries ==
  { AddDirectory(Str(SubSeq(PrefixOf(with_root), 1, k), FALSE)) :
      k \in 1..Len(PrefixOf(with_root)) }

\* the entries at the first n places of the archive
FirstEntries(n) == {archive[i] : i \in 1..n}

\* the loop over the ancestors of the prefix is over
PrefixLoopDone == pc = "walk" \/ seen # {}

\* C25: with a root prefix, zip_dir writes a directory entry for every
\* non-empty ancestor of the prefix, none for the empty ancestor, and all
\* of them before the first entry of the walk.
C25_PrefixEntriesBeforeWalk ==
  IsZip /\ with_root.some =>
    /\ pc = "prefix" => FirstEntries(Len(archive)) \subseteq PrefixEntries
    /\ pc = "walk" /\ seen = {} => Len(archive) = Len(PrefixOf(with_root))
    /\ PrefixLoopDone =>
         /\ Len(archive) >= Len(PrefixOf(with_root))
         /\ FirstEntries(Len(PrefixOf(with_root))) = PrefixEntries

C25_Witness ==
  /\ IsZip
  /\ Len(PrefixOf(with_root)) = MaxPrefix
  /\ Succeeded
  /\ Len(archive) > MaxPrefix

\* the place of the first entry of the archive named by the components c
FirstAt(c) ==
  CHOOSE i \in DOMAIN archive :
    /\ archive[i].name.comps = c
    /\ \A j \in DOMAIN archive : archive[j].name.comps = c => i <= j

\* C26: the prefix entries of zip_dir are written deepest first: the k-th
\* entry is the prefix less its last k - 1 components, so the entry of a
\* prefix directory precedes the entry of its parent.
C26_PrefixDeepestFirst ==
  IsZip /\ with_root.some =>
    LET prefix == PrefixOf(with_root) IN
    /\ \A k \in DOMAIN archive :
         (k <= Len(prefix) /\ (pc = "prefix" \/ PrefixLoopDone)) =>
           archive[k].name.comps = SubSeq(prefix, 1, Len(prefix) + 1 - k)
    /\ PrefixLoopDone =>
         \A k \in 2..Len(prefix) :
           FirstAt(SubSeq(prefix, 1, k)) < FirstAt(SubSeq(prefix, 1, k - 1))

C26_Witness ==
  /\ IsZip
  /\ Len(PrefixOf(with_root)) >= 2
  /\ pc = "walk"
  /\ seen = {}
  /\ Len(archive) >= 2

\* C27: in zip_dir the read buffer is empty at the start of every
\* iteration of the loop over the walk, and the bytes of every file entry
\* are those of its file alone (none when the call failed before writing
\* them).
C27_BufferEmptyPerIteration ==
  IsZip =>
    /\ pc = "walk" => buffer = <<>>
    /\ \A i \in DOMAIN archive :
         archive[i].kind = "file" =>
           \E c \in Universe \cup {Root} :
             /\ IsFile(src_tree, c)
             /\ archive[i].name = ZipName(with_root, Str(c, FALSE))
             /\ \/ archive[i].bytes = Bytes(c)
                \/ /\ i = Len(archive)
                   /\ IsError(result)
                   /\ archive[i].bytes = <<>>

C27_Witness ==
  /\ IsZip
  /\ pc = "walk"
  /\ Cardinality({i \in DOMAIN archive : archive[i].kind = "file"}) >= 2
  /\ WalkNext(src_tree, stack, seen) # {}

\* the one order of the library calls of a tar pipeline
DriverSteps == <<"file_name", "create", "encoder", "append_dir_all", "into_inner", "finish">>

\* what the pipeline ends with when the call `step` fails, whatever the arm
DriverOutcome(step) ==
  CASE step = "file_name" -> Panic
    [] step = "create" -> Err("LocalAssetWriteNewFailed", "", step)
    [] step = "encoder" -> Err("LocalAssetArchive", "failed to create zstd encoder", step)
    [] step = "append_dir_all" ->
         Err("LocalAssetArchive", "failed to copy directory into tar: {src_path} => {dir_name}", step)
    [] step = "into_inner" -> Err("LocalAssetArchive", "failed to write tar: {dest_path}", step)
    [] OTHER -> Err("LocalAssetArchive", "failed to write archive: {dest_path}", step)

IsDriverCall(c) == c.op # "drop_file"

\* C28: the three arms of tar_dir run one driver: the calls made are an
\* initial part of the same list of steps, the first failed call is the
\* last one and fixes the result (kind and reason) whatever the arm, and
\* only the Zstd arm can fail at the construction of the encoder.
C28_ArmsRunOneDriver ==
  IsTar =>
    LET calls == SelectSeq(log, IsDriverCall) IN
    /\ Len(calls) <= Len(DriverSteps)
    /\ \A i \in DOMAIN calls :
         /\ calls[i].op = DriverSteps[i]
         /\ ~calls[i].ok => i = Len(calls) /\ result = DriverOutcome(calls[i].op)
    /\ (\A i \in DOMAIN calls : calls[i].ok) =>
         result = IF Len(calls) = Len(DriverSteps) THEN OkResult ELSE NoResult
    /\ InLog(Call("encoder", FALSE)) => compression = "Zstd"

\* an xz call that failed in the last step of the driver
C28_Witness ==
  /\ compression = "Xzip"
  /\ Returned
  /\ InLog(Call("finish", FALSE))
  /\ result.reason = "failed to write archive: {dest_path}"

\* C29: in tar_dir, for the three kinds, the file name of the destination
\* is taken before the destination is created: a dest_path without a final
\* component makes the call panic with nothing created or truncated and no
\* error value returned, and every create follows a file name that was
\* there.
C29_PanicBeforeCreate ==
  IsTar =>
    /\ ~dest_path.has_name /\ pc # "start" =>
         /\ pc = "panicked"
         /\ result = Panic
         /\ disk = prior
         /\ ~file_open
         /\ log = <<Call("file_name", FALSE)>>
    /\ \A i \in DOMAIN log :
         log[i].op = "create" => i = 2 /\ log[1] = Call("file_name", TRUE)

\* a call of each kind is covered by the formula; this one is zstd
C29_Witness ==
  /\ compression = "Zstd"
  /\ ~dest_path.has_name
  /\ pc = "panicked"
  /\ ~CreatedDest

\* the calls that read the source
source_reads == {"append_dir_all", "open", "read_to_end"}

\* C30: the destination is truncated before the source is read, so from
\* the successful create on an archive that was at dest_path is gone, and
\* a call that fails at any step after the create leaves the destination
\* truncated or partly written, in both pipelines.
C30_LaterFailureDestroysPrior ==
  prior = "prior" =>
    /\ CreatedDest => disk # prior
    /\ \A i \in DOMAIN log :
         log[i].op \in source_reads =>
           \E j \in 1..(i - 1) : log[j] = Call("create", TRUE)
    /\ Returned /\ IsError(result) /\ result.step # "create" =>
         /\ CreatedDest
         /\ disk \in {"truncated", "partial"}

\* a zip call over an earlier archive that failed while reading a file
C30_Witness ==
  /\ prior = "prior"
  /\ IsZip
  /\ Returned
  /\ result.step = "read_to_end"
  /\ disk = "partial"

=============================================================================
